---- MODULE Spec2Model ----
(***************************************************************************)
(* Buddhabrot compute pipeline of bbrot.py and mandel.py: the orbit        *)
(* accumulation scheduler (render_seeds_gen / render_seeds), the escape    *)
(* time evaluator (mandel_iters) and frontier extraction (frontier_cells / *)
(* iter_cells).                                                            *)
(*                                                                         *)
(* The OpenCL kernels (bbrot.cl, mandel.cl) are not part of the sources;   *)
(* they are modelled from the specification: one dispatch advances a point *)
(* by at most MAX_LOOPS iterations from the state left on the device by    *)
(* the previous dispatch.  Doubles are modelled as fixed-point integers    *)
(* (FIX units per 1.0) and the configuration is scaled down.               *)
(***************************************************************************)
EXTENDS Integers, Sequences, FiniteSets, TLC

(***************************************************************************)
(* Configuration constants (scaled).                                       *)
(***************************************************************************)
FIX == 2
XMIN == -4
XRANGE == 9
YMIN == -4
YRANGE == 9
MAX_LOOPS == 2
MAX_ITERS_CELLS == 2
MIN_ITERS_SAMPLES == 2
MAX_ITERS_SAMPLES == 6
SAMPLES == 2
ANIMATE_FPS == 2
ANIMATE_SECONDS == 1
BYTES_PER_COUNT == 4
RAND_FIX == 2
MANDEL_MAX_RENDER_BUFS == 2

(***************************************************************************)
(* Bounds of the model.                                                    *)
(***************************************************************************)
MaxSeeds == 5
MaxCheckpoint == 5
MaxItersArg == 5
MaxBatch == 2
MaxShape == 4
MaxFileSeeds == 2
MaxSeedsLive == 3

VARIABLES
    STEPS,            \* grid resolution of the run
    variant,          \* "bbrot": render_seeds_gen, "mandel": mandel.py render_seeds
    consumer,         \* who drives the generator: "render_seeds", "generator" (animate) or "main" (mandel.py)
    seeds,            \* the seed list: 0..S-1 -> <<x, y, orbitLength>>
    iter_checkpoints, \* sequence of iteration bounds
    nbufs,            \* size of the buffer pool
    seed_list,        \* host: slot -> seed index
    done,             \* host copy of the DoneSet
    buff,             \* host copy of the slot buffers
    counts,           \* the last merged histogram handed out
    unfinished,       \* host: list of unfinished seed indices
    n,                \* host: work items of the current round
    zi,               \* host: position of a for loop over slots
    ck,               \* host: index of the current checkpoint (1-based)
    pc,               \* host: control position
    seed_list_d, x_d, y_d, buff_d, iters_d, done_d,  \* device buffers
    queue,            \* the command queue: commands enqueued and not complete
    rounds,           \* dispatch rounds issued in the current checkpoint pass
    dispatches,       \* kernel dispatches issued in the whole run
    emitted,          \* the histograms yielded so far, in order
    race,             \* the host touched shared data while a command was in flight
    max_outstanding,  \* the largest number of kernel dispatches in the queue at once
    assigned,         \* the seeds dispatched in the current round, in slot order
    served,           \* the seeds dispatched in the current checkpoint pass
    it_variant,       \* mandel_iters: "bbrot" or "mandel" (the dispatch-count rule)
    it_max_iters,     \* mandel_iters: the horizon max_iters
    it_points,        \* mandel_iters: the batch, 0..M-1 -> <<x0, y0>>
    it_dev,           \* mandel_iters: device state per point, [x, y, iters, done]
    it_n,             \* mandel_iters: dispatches issued so far
    it_result,        \* mandel_iters: the returned iters array
    it_pc,            \* mandel_iters: control position
    fr_iters,         \* frontier extraction: the EscapeField
    fr_max_iters,     \* frontier extraction: max_iters
    fr_cells_v,       \* result of frontier_cells (bbrot.py)
    fr_cells_s,       \* result of iter_cells (mandel.py)
    fr_pc,            \* frontier extraction: control position
    cp_variant,       \* compute pipeline: "bbrot" (compute) or "mandel" (main)
    cp_field,         \* compute pipeline: the EscapeField of the grid
    cp_cells,         \* compute pipeline: the frontier cell list
    cp_rand,          \* sample_cells: the drawn points, 0..samples-1 -> <<x, y>>
    cp_sample_iters,  \* sample_cells: the escape count of each drawn point
    cp_seeds,         \* compute pipeline: the accepted seeds
    cp_fs,            \* compute pipeline: the files written, name -> content
    cp_log,           \* compute pipeline: the counts reported, in order
    cp_pc,            \* compute pipeline: control position
    cl_cmd,           \* render / animate: the subcommand
    cl_src,           \* the seed lists given to save_seeds, one per input file
    cl_disk,          \* the input files, in args.seeds order: the objects on disk
    cl_damaged,       \* a field has been removed from an input file
    cl_i,             \* do_load_seeds: index of the next file to load
    cl_seeds,         \* do_load_seeds: the seeds loaded so far
    cl_accel,         \* cl_init has run
    cl_images,        \* the image files written
    cl_frames,        \* animate: the iteration bound of each frame written, in order
    cl_pc             \* render / animate: control position

hostVars == <<seed_list, done, buff, counts, unfinished, n, zi, ck, pc>>
devVars == <<seed_list_d, x_d, y_d, buff_d, iters_d, done_d>>
inputVars == <<STEPS, variant, consumer, seeds, iter_checkpoints, nbufs>>
ghostVars == <<rounds, dispatches, emitted, race, max_outstanding, assigned, served>>
renderVars == <<variant, consumer, seeds, iter_checkpoints, nbufs,
                hostVars, devVars, queue, ghostVars>>
itVars == <<it_variant, it_max_iters, it_points, it_dev, it_n, it_result, it_pc>>
frVars == <<fr_iters, fr_max_iters, fr_cells_v, fr_cells_s, fr_pc>>
cpVars == <<cp_variant, cp_field, cp_cells, cp_rand, cp_sample_iters, cp_seeds,
            cp_fs, cp_log, cp_pc>>
clVars == <<cl_cmd, cl_src, cl_disk, cl_damaged, cl_i, cl_seeds, cl_accel,
            cl_images, cl_frames, cl_pc>>
otherVars == <<itVars, frVars, cpVars, clVars>>
vars == <<STEPS, renderVars, itVars, frVars, cpVars, clVars>>

(***************************************************************************)
(* Helpers on Python lists (sequences) and numpy arrays (0-based).         *)
(***************************************************************************)
Min(a, b) == IF a < b THEN a ELSE b
Max(a, b) == IF a > b THEN a ELSE b
Range0(k) == 0 .. (k - 1)
NumSeeds == Cardinality(DOMAIN seeds)
Cells(steps) == Range0(steps) \X Range0(steps)
ZeroHist(steps) == [c \in Cells(steps) |-> 0]

RECURSIVE SumOver(_, _)
SumOver(f, S) ==
    IF S = {} THEN 0
    ELSE LET e == CHOOSE e \in S : TRUE IN f[e] + SumOver(f, S \ {e})

HistTotal(h) == SumOver(h, DOMAIN h)

(***************************************************************************)
(* The iterated map and its divergence test, in fixed point.               *)
(***************************************************************************)
Escaped(x, y) == x * x + y * y > 4 * FIX * FIX
StepX(x0, x, y) == ((x * x - y * y) \div FIX) + x0
StepY(y0, x, y) == ((2 * x * y) \div FIX) + y0
CellOf(steps, x, y) ==
    <<((x - XMIN) * steps) \div XRANGE, ((y - YMIN) * steps) \div YRANGE>>

(***************************************************************************)
(* Kernel mandel_iters: one work item, at most MAX_LOOPS iterations.       *)
(* p = [x, y, iters, done].                                                *)
(***************************************************************************)
RECURSIVE ItersLoop(_, _, _, _, _)
ItersLoop(max_iters, x0, y0, p, loops) ==
    IF p.done = 1 THEN p
    ELSE IF Escaped(p.x, p.y) \/ p.iters >= max_iters
         THEN [p EXCEPT !.done = 1]
    ELSE IF loops = 0 THEN p
    ELSE ItersLoop(max_iters, x0, y0,
                   [p EXCEPT !.x = StepX(x0, p.x, p.y),
                             !.y = StepY(y0, p.x, p.y),
                             !.iters = p.iters + 1],
                   loops - 1)

mandel_iters_item(max_iters, x0, y0, p) == ItersLoop(max_iters, x0, y0, p, MAX_LOOPS)

RECURSIVE EscapeTimeFrom(_, _, _, _)
EscapeTimeFrom(max_iters, x0, y0, p) ==
    IF p.done = 1 THEN p.iters
    ELSE EscapeTimeFrom(max_iters, x0, y0, mandel_iters_item(max_iters, x0, y0, p))

\* The escape count of a point under horizon max_iters, run to completion.
EscapeTime(max_iters, x0, y0) ==
    EscapeTimeFrom(max_iters, x0, y0, [x |-> x0, y |-> y0, iters |-> 0, done |-> 0])

(***************************************************************************)
(* Kernel mandel_trace: one work item replays one seed into one slot,      *)
(* at most MAX_LOOPS iterations, resuming from the device state.           *)
(* p = [x, y, iters, done, hist].  max_iters < 0 means no bound.           *)
(***************************************************************************)
TraceStop(max_iters, p) ==
    Escaped(p.x, p.y) \/ (max_iters >= 0 /\ p.iters >= max_iters)

RECURSIVE TraceLoop(_, _, _, _, _, _)
TraceLoop(steps, max_iters, x0, y0, p, loops) ==
    IF TraceStop(max_iters, p) THEN [p EXCEPT !.done = 1]
    ELSE IF loops = 0 THEN p
    ELSE LET c == CellOf(steps, p.x, p.y) IN
         TraceLoop(steps, max_iters, x0, y0,
                   [p EXCEPT !.x = StepX(x0, p.x, p.y),
                             !.y = StepY(y0, p.x, p.y),
                             !.iters = p.iters + 1,
                             !.hist = [p.hist EXCEPT ![c] = @ + 1]],
                   loops - 1)

mandel_trace_item(steps, max_iters, x0, y0, p) ==
    TraceLoop(steps, max_iters, x0, y0, p, MAX_LOOPS)

\* Device state as one record, for the kernels.
Dev(xs, ys, bs, its, ds) == [x |-> xs, y |-> ys, buff |-> bs, iters |-> its, done |-> ds]

\* Work item id of a dispatch: seed sd is replayed into slot id.
TraceWorkItem(steps, max_iters, sds, dev, id, sd) ==
    LET p == mandel_trace_item(steps, max_iters, sds[sd][1], sds[sd][2],
                 [x |-> dev.x[sd], y |-> dev.y[sd], iters |-> dev.iters[sd],
                  done |-> dev.done[sd], hist |-> dev.buff[id]])
    IN [x |-> [dev.x EXCEPT ![sd] = p.x],
        y |-> [dev.y EXCEPT ![sd] = p.y],
        buff |-> [dev.buff EXCEPT ![id] = p.hist],
        iters |-> [dev.iters EXCEPT ![sd] = p.iters],
        done |-> [dev.done EXCEPT ![sd] = p.done]]

\* bbrot.cl mandel_trace over global size k: work items 0..k-1, item id
\* taking its seed from seed_list_d[id].
RECURSIVE mandel_trace(_, _, _, _, _, _)
mandel_trace(steps, k, max_iters, sl_d, sds, dev) ==
    IF k = 0 THEN dev
    ELSE TraceWorkItem(steps, max_iters, sds,
                       mandel_trace(steps, k - 1, max_iters, sl_d, sds, dev),
                       k - 1, sl_d[k - 1])

(***************************************************************************)
(* Pool size and host-side pure steps of the scheduler.                    *)
(***************************************************************************)
MAX_RENDER_BUF_MEM == 80
MAX_RENDER_BUFS == MAX_RENDER_BUF_MEM \div (BYTES_PER_COUNT * STEPS * STEPS)

\* Mutant: the pool is sized by the seed count alone.
PoolSize_nomin(max_bufs, nseeds) == nseeds

\* nbufs = min(MAX_RENDER_BUFS, len(seeds))
PoolSize(max_bufs, nseeds) == Min(max_bufs, nseeds)

\* unfinished = [i for i in range(len(seeds)) if done[i] == 0]
RECURSIVE UnfinishedFrom(_, _, _)
UnfinishedFrom(d, i, nseeds) ==
    IF i >= nseeds THEN <<>>
    ELSE IF d[i] = 0 THEN <<i>> \o UnfinishedFrom(d, i + 1, nseeds)
    ELSE UnfinishedFrom(d, i + 1, nseeds)

\* Mutant: the scan starts at index 1, range(1, len(seeds)).
Unfinished_from_one(d, nseeds) == UnfinishedFrom(d, 1, nseeds)

\* Mutant: the scan finds no unfinished seed.
Unfinished_none(d, nseeds) == <<>>

\* Mutant: the scan ignores the done flags.
Unfinished_all(d, nseeds) == [k \in 1 .. nseeds |-> k - 1]

Unfinished(d, nseeds) == UnfinishedFrom(d, 0, nseeds)

\* Mutant: one work item per round.
RoundSize_one(nb, unf) == Min(1, Len(unf))

\* n = min(nbufs, len(unfinished))
RoundSize(nb, unf) == Min(nb, Len(unf))

\* Mutant: the slots take the unfinished seeds from the end of the list.
AssignSlots_last(sl, unf, k) ==
    [b \in DOMAIN sl |-> IF b < k THEN unf[Len(unf) - b] ELSE sl[b]]

\* for buff_id in range(n): seed_list[buff_id] = unfinished[buff_id]
AssignSlots(sl, unf, k) ==
    [b \in DOMAIN sl |-> IF b < k THEN unf[b + 1] ELSE sl[b]]

\* Mutant: the first slot is returned without adding the others.
MergeBuffers_first(steps, bs) ==
    IF DOMAIN bs = {} THEN ZeroHist(steps) ELSE bs[0]

\* counts = np.sum(buff, axis=0)
MergeBuffers(steps, bs) ==
    [c \in Cells(steps) |-> SumOver([b \in DOMAIN bs |-> bs[b][c]], DOMAIN bs)]

(***************************************************************************)
(* The command queue: in order, commands complete one at a time.           *)
(***************************************************************************)
IsKernel(cmd) == cmd.op \in {"trace", "trace1"}
KernelsIn(q) == Cardinality({i \in DOMAIN q : IsKernel(q[i])})

\* Mutant: finish returns at once.
finish_returns_now(q) == TRUE

\* cq.finish() returns once every enqueued command has completed.
finish_returns(q) == q = <<>>
\* enqueue_copy with the default is_blocking=True returns once the copy, and
\* so every command enqueued before it, has completed.
blocking_copy_returns(q) == q = <<>>

\* The host reads or writes the DoneSet, the seed list or a slot buffer.
HostTouch == race' = (race \/ queue # <<>>)

(***************************************************************************)
(* Inputs.                                                                 *)
(***************************************************************************)
SeedCoords == {<<1, -1>>, <<-1, 2>>, <<2, 0>>, <<-2, -1>>}
\* A seed as sample_cells produces it: coordinates and escape count, the
\* count strictly inside the sampling window.
SeedOf(c) == <<c[1], c[2], EscapeTime(MAX_ITERS_SAMPLES, c[1], c[2])>>
\* Mutant: the window includes its bounds.
InWindow_closed(i) == i >= MIN_ITERS_SAMPLES /\ i <= MAX_ITERS_SAMPLES

\* if i > MIN_ITERS_SAMPLES and i < MAX_ITERS_SAMPLES
InWindow(i) == i > MIN_ITERS_SAMPLES /\ i < MAX_ITERS_SAMPLES
SeedTriples == {t \in {SeedOf(c) : c \in SeedCoords} : InWindow(t[3])}
SeedLists == UNION {[Range0(k) -> SeedTriples] : k \in 0 .. MaxSeeds}
\* Ascending sequences of one or two iteration bounds.
CheckpointSeqs ==
    {<<a>> : a \in 1 .. MaxCheckpoint}
    \cup {s \in (1 .. MaxCheckpoint) \X (1 .. MaxCheckpoint) : s[1] < s[2]}

RenderInit ==
    /\ STEPS = 3
    /\ seeds \in SeedLists
    /\ \/ variant = "bbrot" /\ consumer = "render_seeds" /\ iter_checkpoints = <<-1>>
       \/ variant = "bbrot" /\ consumer = "generator" /\ iter_checkpoints \in CheckpointSeqs
       \/ variant = "mandel" /\ consumer = "main" /\ iter_checkpoints = <<-1>>
    /\ nbufs = IF variant = "bbrot" THEN PoolSize(MAX_RENDER_BUFS, NumSeeds)
               ELSE PoolSize(MANDEL_MAX_RENDER_BUFS, NumSeeds)
    /\ seed_list = [b \in Range0(nbufs) |-> 0]
    /\ done = [i \in DOMAIN seeds |-> 0]
    /\ buff = [b \in Range0(nbufs) |-> ZeroHist(STEPS)]
    /\ counts = <<>>
    /\ unfinished = <<>>
    /\ n = 0
    /\ zi = 0
    /\ ck = 0
    /\ pc = IF variant = "bbrot" THEN "for" ELSE "m_while"
    /\ seed_list_d = seed_list
    /\ x_d = [i \in DOMAIN seeds |-> seeds[i][1]]
    /\ y_d = [i \in DOMAIN seeds |-> seeds[i][2]]
    /\ buff_d = buff
    /\ iters_d = [i \in DOMAIN seeds |-> 0]
    /\ done_d = done
    /\ queue = <<>>
    /\ rounds = 0
    /\ dispatches = 0
    /\ emitted = <<>>
    /\ race = FALSE
    /\ max_outstanding = 0
    /\ assigned = <<>>
    /\ served = {}

(***************************************************************************)
(* render_seeds_gen (bbrot.py).                                            *)
(***************************************************************************)
\* Mutant: every pass is dispatched with the first checkpoint's bound.
max_iters_first == iter_checkpoints[1]

max_iters == iter_checkpoints[ck]

\* for max_iters in iter_checkpoints:
ForCheckpoint ==
    /\ pc = "for"
    /\ IF ck < Len(iter_checkpoints)
       THEN /\ ck' = ck + 1 /\ pc' = "while" /\ rounds' = 0
            /\ assigned' = <<>> /\ served' = {}
       ELSE /\ ck' = ck /\ pc' = "exhausted" /\ rounds' = rounds
            /\ UNCHANGED <<assigned, served>>
    /\ UNCHANGED <<inputVars, otherVars, seed_list, done, buff, counts, unfinished, n, zi,
                   devVars, queue, dispatches, emitted, race, max_outstanding>>

\* unfinished = [...]; if not(unfinished): break
WhileHead ==
    /\ pc = "while"
    /\ unfinished' = Unfinished(done, NumSeeds)
    /\ pc' = IF unfinished' = <<>> THEN "read_buff" ELSE "assign"
    /\ HostTouch
    /\ UNCHANGED <<inputVars, otherVars, seed_list, done, buff, counts, n, zi, ck,
                   devVars, queue, rounds, dispatches, assigned, served, emitted, max_outstanding>>

\* n = min(nbufs, len(unfinished)); seed_list[buff_id] = unfinished[buff_id]
Assign ==
    /\ pc = "assign"
    /\ n' = RoundSize(nbufs, unfinished)
    /\ seed_list' = AssignSlots(seed_list, unfinished, n')
    /\ pc' = "copy_seed_list"
    /\ HostTouch
    /\ UNCHANGED <<inputVars, otherVars, done, buff, counts, unfinished, zi, ck,
                   devVars, queue, rounds, dispatches, assigned, served, emitted, max_outstanding>>

\* cl.enqueue_copy(cq, seed_list_d, seed_list)
CopySeedList ==
    /\ pc = "copy_seed_list"
    /\ blocking_copy_returns(queue)
    /\ seed_list_d' = seed_list
    /\ pc' = "dispatch"
    /\ HostTouch
    /\ UNCHANGED <<inputVars, otherVars, seed_list, done, buff, counts, unfinished, n, zi, ck,
                   x_d, y_d, buff_d, iters_d, done_d,
                   queue, rounds, dispatches, assigned, served, emitted, max_outstanding>>

\* mandel_trace(cq, (n,), None, np.int32(max_iters), ...)
Dispatch ==
    /\ pc = "dispatch"
    /\ queue' = Append(queue, [op |-> "trace", k |-> n, max_iters |-> max_iters])
    /\ rounds' = rounds + 1
    /\ assigned' = [b \in 1 .. n |-> seed_list_d[b - 1]]
    /\ served' = served \cup {seed_list_d[b] : b \in Range0(n)}
    /\ dispatches' = dispatches + 1
    /\ max_outstanding' = Max(max_outstanding, KernelsIn(queue'))
    /\ pc' = "finish"
    /\ UNCHANGED <<inputVars, otherVars, seed_list, done, buff, counts, unfinished, n, zi, ck,
                   devVars, emitted, race>>

\* cq.finish()
Finish ==
    /\ pc = "finish"
    /\ finish_returns(queue)
    /\ pc' = "copy_done"
    /\ UNCHANGED <<inputVars, otherVars, seed_list, done, buff, counts, unfinished, n, zi, ck,
                   devVars, queue, ghostVars>>

\* cl.enqueue_copy(cq, done, done_d)
CopyDone ==
    /\ pc = "copy_done"
    /\ blocking_copy_returns(queue)
    /\ done' = done_d
    /\ pc' = "while"
    /\ HostTouch
    /\ UNCHANGED <<inputVars, otherVars, seed_list, buff, counts, unfinished, n, zi, ck,
                   devVars, queue, rounds, dispatches, assigned, served, emitted, max_outstanding>>

\* cl.enqueue_copy(cq, buff, buff_d)
ReadBuff ==
    /\ pc = "read_buff"
    /\ blocking_copy_returns(queue)
    /\ buff' = buff_d
    /\ pc' = "yield"
    /\ HostTouch
    /\ UNCHANGED <<inputVars, otherVars, seed_list, done, counts, unfinished, n, zi, ck,
                   devVars, queue, rounds, dispatches, assigned, served, emitted, max_outstanding>>

\* counts = np.sum(buff, axis=0, dtype=np.int32); yield counts
\* render_seeds returns the first histogram and drops the generator.
Yield ==
    /\ pc = "yield"
    /\ counts' = MergeBuffers(STEPS, buff)
    /\ emitted' = Append(emitted, counts')
    /\ pc' = IF consumer = "render_seeds" THEN "returned" ELSE "reset_done"
    /\ HostTouch
    /\ UNCHANGED <<inputVars, otherVars, seed_list, done, buff, unfinished, n, zi, ck,
                   devVars, queue, rounds, dispatches, assigned, served, max_outstanding>>

\* Mutant: the host DoneSet is left as it is.
ResetDone_skip ==
    /\ pc = "reset_done"
    /\ pc' = "copy_reset"
    /\ HostTouch
    /\ UNCHANGED <<inputVars, otherVars, seed_list, done, buff, counts, unfinished, n, zi, ck,
                   devVars, queue, rounds, dispatches, assigned, served, emitted,
                   max_outstanding>>

\* done *= 0
ResetDone ==
    /\ pc = "reset_done"
    /\ done' = [i \in DOMAIN done |-> 0]
    /\ pc' = "copy_reset"
    /\ HostTouch
    /\ UNCHANGED <<inputVars, otherVars, seed_list, buff, counts, unfinished, n, zi, ck,
                   devVars, queue, rounds, dispatches, assigned, served, emitted, max_outstanding>>

\* Mutant: the slot buffers on the device are zeroed along with the DoneSet.
CopyReset_clearing ==
    /\ pc = "copy_reset"
    /\ blocking_copy_returns(queue)
    /\ done_d' = done
    /\ buff_d' = [b \in DOMAIN buff_d |-> ZeroHist(STEPS)]
    /\ pc' = "for"
    /\ HostTouch
    /\ UNCHANGED <<inputVars, otherVars, seed_list, done, buff, counts, unfinished, n, zi, ck,
                   seed_list_d, x_d, y_d, iters_d,
                   queue, rounds, dispatches, assigned, served, emitted, max_outstanding>>

\* cl.enqueue_copy(cq, done_d, done)
CopyReset ==
    /\ pc = "copy_reset"
    /\ blocking_copy_returns(queue)
    /\ done_d' = done
    /\ pc' = "for"
    /\ HostTouch
    /\ UNCHANGED <<inputVars, otherVars, seed_list, done, buff, counts, unfinished, n, zi, ck,
                   seed_list_d, x_d, y_d, buff_d, iters_d,
                   queue, rounds, dispatches, assigned, served, emitted, max_outstanding>>

(***************************************************************************)
(* render_seeds (mandel.py): one single-item dispatch per slot and round.  *)
(***************************************************************************)
\* zip(unfinished, buffs_d) has this many pairs
ZipLen(unf, nb) == Min(Len(unf), nb)

\* unfinished = [...]; if not(unfinished): break
MWhileHead ==
    /\ pc = "m_while"
    /\ unfinished' = Unfinished(done, NumSeeds)
    /\ pc' = IF unfinished' = <<>> THEN "m_read" ELSE "m_enqueue"
    /\ zi' = 0
    /\ HostTouch
    /\ UNCHANGED <<inputVars, otherVars, seed_list, done, buff, counts, n, ck,
                   devVars, queue, rounds, dispatches, assigned, served, emitted, max_outstanding>>

\* for seed, buff_d in zip(unfinished, buffs_d): render_kernel(cq, (1,), None, seed, ...)
MEnqueue ==
    /\ pc = "m_enqueue"
    /\ zi < ZipLen(unfinished, nbufs)
    /\ queue' = Append(queue, [op |-> "trace1", seed |-> unfinished[zi + 1], slot |-> zi])
    /\ zi' = zi + 1
    /\ assigned' = IF zi = 0 THEN <<unfinished[zi + 1]>>
                   ELSE Append(assigned, unfinished[zi + 1])
    /\ served' = served \cup {unfinished[zi + 1]}
    /\ rounds' = IF zi = 0 THEN rounds + 1 ELSE rounds
    /\ dispatches' = dispatches + 1
    /\ max_outstanding' = Max(max_outstanding, KernelsIn(queue'))
    /\ pc' = IF zi' < ZipLen(unfinished, nbufs) THEN "m_enqueue" ELSE "m_finish"
    /\ UNCHANGED <<inputVars, otherVars, seed_list, done, buff, counts, unfinished, n, ck,
                   devVars, emitted, race>>

\* cq.finish()
MFinish ==
    /\ pc = "m_finish"
    /\ finish_returns(queue)
    /\ pc' = "m_copy_done"
    /\ UNCHANGED <<inputVars, otherVars, seed_list, done, buff, counts, unfinished, n, zi, ck,
                   devVars, queue, ghostVars>>

\* cl.enqueue_copy(cq, done, done_d)
MCopyDone ==
    /\ pc = "m_copy_done"
    /\ blocking_copy_returns(queue)
    /\ done' = done_d
    /\ pc' = "m_while"
    /\ HostTouch
    /\ UNCHANGED <<inputVars, otherVars, seed_list, buff, counts, unfinished, n, zi, ck,
                   devVars, queue, rounds, dispatches, assigned, served, emitted, max_outstanding>>

\* for buff, buff_d in zip(buffs, buffs_d):
\*     cl.enqueue_copy(cq, buff, buff_d, is_blocking=False)
MReadBuffs ==
    /\ pc = "m_read"
    /\ IF zi < nbufs
       THEN /\ queue' = Append(queue, [op |-> "read_buff", slot |-> zi])
            /\ zi' = zi + 1
            /\ pc' = "m_read"
       ELSE /\ pc' = "m_finish2"
            /\ UNCHANGED <<queue, zi>>
    /\ UNCHANGED <<inputVars, otherVars, seed_list, done, buff, counts, unfinished, n, ck,
                   devVars, ghostVars>>

\* cq.finish()
MFinish2 ==
    /\ pc = "m_finish2"
    /\ finish_returns(queue)
    /\ pc' = "m_merge"
    /\ UNCHANGED <<inputVars, otherVars, seed_list, done, buff, counts, unfinished, n, zi, ck,
                   devVars, queue, ghostVars>>

\* dest = buffs[0]; for buff in buffs[1:]: dest += buff; return dest
\* buffs[0] of an empty list raises IndexError.
MMerge ==
    /\ pc = "m_merge"
    /\ IF nbufs = 0
       THEN /\ pc' = "IndexError"
            /\ UNCHANGED <<buff, counts, emitted>>
       ELSE /\ counts' = MergeBuffers(STEPS, buff)
            /\ buff' = [buff EXCEPT ![0] = counts']
            /\ emitted' = Append(emitted, counts')
            /\ pc' = "returned"
    /\ HostTouch
    /\ UNCHANGED <<inputVars, otherVars, seed_list, done, unfinished, n, zi, ck,
                   devVars, queue, rounds, dispatches, assigned, served, max_outstanding>>

(***************************************************************************)
(* The device: completes the command at the head of the queue.             *)
(***************************************************************************)
\* mandel.cl mandel_trace: one work item, seed sd into slot id, full trace.
mandel_trace1(steps, sd, id, sds, dev) ==
    [TraceWorkItem(steps, -1, sds, dev, id, sd) EXCEPT !.iters = dev.iters]

SetDev(dev) ==
    /\ x_d' = dev.x
    /\ y_d' = dev.y
    /\ buff_d' = dev.buff
    /\ iters_d' = dev.iters
    /\ done_d' = dev.done

DeviceTrace ==
    /\ queue # <<>>
    /\ Head(queue).op = "trace"
    /\ SetDev(mandel_trace(STEPS, Head(queue).k, Head(queue).max_iters, seed_list_d,
                           seeds, Dev(x_d, y_d, buff_d, iters_d, done_d)))
    /\ queue' = Tail(queue)
    /\ UNCHANGED <<inputVars, otherVars, hostVars, seed_list_d, ghostVars>>

DeviceTrace1 ==
    /\ queue # <<>>
    /\ Head(queue).op = "trace1"
    /\ SetDev(mandel_trace1(STEPS, Head(queue).seed, Head(queue).slot,
                            seeds, Dev(x_d, y_d, buff_d, iters_d, done_d)))
    /\ queue' = Tail(queue)
    /\ UNCHANGED <<inputVars, otherVars, hostVars, seed_list_d, ghostVars>>

DeviceCopy ==
    /\ queue # <<>>
    /\ Head(queue).op = "read_buff"
    /\ buff' = [buff EXCEPT ![Head(queue).slot] = buff_d[Head(queue).slot]]
    /\ queue' = Tail(queue)
    /\ UNCHANGED <<inputVars, otherVars, seed_list, done, counts, unfinished, n, zi, ck, pc,
                   devVars, ghostVars>>

(***************************************************************************)
(* Reference orbits, computed from the map alone.                          *)
(***************************************************************************)
\* The point a seed's orbit has reached after k steps.
RECURSIVE OrbitPoint(_, _, _)
OrbitPoint(x0, y0, k) ==
    IF k = 0 THEN <<x0, y0>>
    ELSE LET q == OrbitPoint(x0, y0, k - 1)
         IN <<StepX(x0, q[1], q[2]), StepY(y0, q[1], q[2])>>

\* The cell orbit step k (1-based) of seed t records.
OrbitCell(steps, t, k) ==
    LET q == OrbitPoint(t[1], t[2], k - 1) IN CellOf(steps, q[1], q[2])

\* The orbit step a seed has reached at iteration bound m (negative: no bound).
Target(t, m) == IF m < 0 THEN t[3] ELSE Min(m, t[3])

\* Visits of cell c by orbit steps 1..Target of every seed.
ExpectedHist(steps, sds, m) ==
    [c \in Cells(steps) |->
        SumOver([i \in DOMAIN sds |->
                    Cardinality({k \in 1 .. Target(sds[i], m) :
                                    OrbitCell(steps, sds[i], k) = c})],
                DOMAIN sds)]

SumOrbitLengths(sds) == SumOver([i \in DOMAIN sds |-> sds[i][3]], DOMAIN sds)

\* ceil(a / b), 0 when b = 0
CeilDiv(a, b) == IF b = 0 THEN 0 ELSE (a + b - 1) \div b

(***************************************************************************)
(* render_seeds (bbrot.py) as a function of the seed list: the generator   *)
(* run on the single checkpoint -1 up to its first yield.                  *)
(***************************************************************************)
RECURSIVE WhileLoop(_, _, _, _, _, _)
WhileLoop(steps, m, sds, nb, sl, dev) ==
    LET unf == Unfinished(dev.done, Cardinality(DOMAIN sds)) IN
    IF unf = <<>> THEN dev
    ELSE LET k == RoundSize(nb, unf)
             sl2 == AssignSlots(sl, unf, k)
         IN WhileLoop(steps, m, sds, nb, sl2, mandel_trace(steps, k, m, sl2, sds, dev))

render_seeds(steps, max_bufs, sds) ==
    LET nb == PoolSize(max_bufs, Cardinality(DOMAIN sds))
        dev0 == Dev([i \in DOMAIN sds |-> sds[i][1]],
                    [i \in DOMAIN sds |-> sds[i][2]],
                    [b \in Range0(nb) |-> ZeroHist(steps)],
                    [i \in DOMAIN sds |-> 0],
                    [i \in DOMAIN sds |-> 0])
    IN MergeBuffers(steps,
                    WhileLoop(steps, -1, sds, nb, [b \in Range0(nb) |-> 0], dev0).buff)

\* The seed list with the seeds at positions i and j exchanged.
Swap(sds, i, j) ==
    [k \in DOMAIN sds |-> IF k = i THEN sds[j] ELSE IF k = j THEN sds[i] ELSE sds[k]]

(***************************************************************************)
(* mandel_iters (bbrot.py, mandel.py): the escape-time evaluator.          *)
(***************************************************************************)
\* bbrot.py: nloops = math.ceil(max_iters / MAX_LOOPS)
nloops_bbrot(m) == CeilDiv(m, MAX_LOOPS)
\* mandel.py: nloops = max(1, max_iters // MAX_LOOPS)
nloops_mandel(m) == Max(1, m \div MAX_LOOPS)
nloops == IF it_variant = "bbrot" THEN nloops_bbrot(it_max_iters)
          ELSE nloops_mandel(it_max_iters)

IterPoints == {<<0, 0>>, <<1, -1>>, <<2, 0>>, <<3, 3>>}
Batches == UNION {[Range0(k) -> IterPoints] : k \in 1 .. MaxBatch}

ItersIdle ==
    /\ it_variant = "bbrot" /\ it_max_iters = 0
    /\ it_points = <<>> /\ it_dev = <<>> /\ it_n = 0 /\ it_result = <<>>
    /\ it_pc = "idle"

\* x = np.array(x0) ... done = np.zeros_like(x0); the device buffers are
\* created as copies of them.
ItersInit ==
    /\ it_variant \in {"bbrot", "mandel"}
    /\ it_max_iters \in 0 .. MaxItersArg
    /\ it_points \in Batches
    /\ it_dev = [i \in DOMAIN it_points |->
                    [x |-> it_points[i][1], y |-> it_points[i][2],
                     iters |-> 0, done |-> 0]]
    /\ it_n = 0
    /\ it_result = <<>>
    /\ it_pc = "for"

\* for n in range(nloops): iters_kernel(...); cq.finish()
ItersDispatch ==
    /\ it_pc = "for" /\ it_n < nloops
    /\ it_dev' = [i \in DOMAIN it_points |->
                     mandel_iters_item(it_max_iters, it_points[i][1], it_points[i][2],
                                       it_dev[i])]
    /\ it_n' = it_n + 1
    /\ UNCHANGED <<STEPS, renderVars, clVars, frVars, cpVars, it_variant, it_max_iters, it_points,
                   it_result, it_pc>>

\* cl.enqueue_copy(cq, iters, iters_d); cq.finish(); return iters
ItersReturn ==
    /\ it_pc = "for" /\ it_n >= nloops
    /\ it_result' = [i \in DOMAIN it_points |-> it_dev[i].iters]
    /\ it_pc' = "returned"
    /\ UNCHANGED <<STEPS, renderVars, clVars, frVars, cpVars, it_variant, it_max_iters, it_points,
                   it_dev, it_n>>

(***************************************************************************)
(* mandel_iters as a function of its arguments: nloops dispatches over the *)
(* whole batch.                                                            *)
(***************************************************************************)
RECURSIVE ItersRounds(_, _, _, _)
ItersRounds(max_it, pts, dev, k) ==
    IF k = 0 THEN dev
    ELSE ItersRounds(max_it, pts,
                     [i \in DOMAIN pts |->
                         mandel_iters_item(max_it, pts[i][1], pts[i][2], dev[i])],
                     k - 1)

mandel_iters(v, max_it, pts) ==
    LET dev0 == [i \in DOMAIN pts |->
                    [x |-> pts[i][1], y |-> pts[i][2], iters |-> 0, done |-> 0]]
        nl == IF v = "bbrot" THEN nloops_bbrot(max_it) ELSE nloops_mandel(max_it)
        dev == ItersRounds(max_it, pts, dev0, nl)
    IN [i \in DOMAIN pts |-> dev[i].iters]

(***************************************************************************)
(* sample_cells and the compute pipeline (bbrot.py compute, mandel.py      *)
(* main up to the render).                                                 *)
(***************************************************************************)
\* DX = XRANGE / STEPS, DY = YRANGE / STEPS
DX(steps) == XRANGE \div steps
DY(steps) == YRANGE \div steps
\* x0[i, j] = XMIN + j * DX, y0[i, j] = YMIN + i * DY
GridX(steps, c) == XMIN + c[2] * DX(steps)
GridY(steps, c) == YMIN + c[1] * DY(steps)

\* per_cell = 1 + SAMPLES // len(cells)
per_cell(cells) == 1 + SAMPLES \div Len(cells)
\* samples = len(cells) * per_cell
NumSamples(cells) == Len(cells) * per_cell(cells)

\* The float64 nearest to a / q: round to nearest, ties to even.
RoundEven(a, q) ==
    LET f == a \div q
        r == a % q
    IN IF 2 * r < q THEN f
       ELSE IF 2 * r > q THEN f + 1
       ELSE IF f % 2 = 0 THEN f ELSE f + 1

\* np.random.rand(samples) * DX: an offset in [0, DX).  The product is
\* smaller in magnitude than a coordinate and so is resolved finer: it is
\* counted in units of 1 / RAND_FIX of a coordinate unit.
RandScaled(d) == Range0(d * RAND_FIX)

\* rand * DX + cell_x, rand * DY + cell_y: the points a draw for cell c can
\* give, each sum rounded to the nearest coordinate.
CellDraws(steps, c) ==
    {<<RoundEven(px + GridX(steps, c) * RAND_FIX, RAND_FIX),
       RoundEven(py + GridY(steps, c) * RAND_FIX, RAND_FIX)>> :
        px \in RandScaled(DX(steps)), py \in RandScaled(DY(steps))}

\* rand + np.tile(cell, per_cell): sample k is drawn for cell k mod len(cells).
\* The arrays (rand_x, rand_y) from sample k on, as sequences of points.
RECURSIVE RandArrays(_, _, _)
RandArrays(steps, cells, k) ==
    IF k >= NumSamples(cells) THEN {<<>>}
    ELSE {<<p>> \o t : p \in CellDraws(steps, cells[(k % Len(cells)) + 1]),
                       t \in RandArrays(steps, cells, k + 1)}

\* The arrays sample_cells may draw, indexed from 0.
RandPoints(steps, cells) ==
    {[k \in Range0(NumSamples(cells)) |-> sq[k + 1]] : sq \in RandArrays(steps, cells, 0)}

\* list((x, y, i) for (x, y, i) in zip(rand_x, rand_y, sample_iters) if ...)
RECURSIVE RetainSeeds(_, _, _)
RetainSeeds(rand, iters, k) ==
    IF k \notin DOMAIN rand THEN <<>>
    ELSE (IF InWindow(iters[k]) THEN <<<<rand[k][1], rand[k][2], iters[k]>>>> ELSE <<>>)
         \o RetainSeeds(rand, iters, k + 1)

\* The fields the grid evaluation may have produced: any of two grid points
\* maxed, the others escaped at once.
ComputeFields ==
    {[c \in Cells(3) |-> IF c \in m THEN MAX_ITERS_CELLS ELSE 0] :
        m \in SUBSET {<<0, 2>>, <<2, 0>>}}

ComputeIdle ==
    /\ cp_variant = "bbrot" /\ cp_field = <<>> /\ cp_cells = <<>>
    /\ cp_rand = <<>> /\ cp_sample_iters = <<>> /\ cp_seeds = <<>>
    /\ cp_fs = {} /\ cp_log = <<>> /\ cp_pc = "idle"

\* iters = mandel_iters(ctx, cq, prog, MAX_ITERS_CELLS, x0, y0)
ComputeInit ==
    /\ STEPS = 3
    /\ cp_variant \in {"bbrot", "mandel"}
    /\ cp_field \in ComputeFields
    /\ cp_cells = <<>> /\ cp_rand = <<>> /\ cp_sample_iters = <<>> /\ cp_seeds = <<>>
    /\ cp_fs = {} /\ cp_log = <<>>
    /\ cp_pc = "cells"

(***************************************************************************)
(* Frontier extraction: frontier_cells (bbrot.py), iter_cells (mandel.py). *)
(* An EscapeField is a function on Cells(k); cells are listed row-major.   *)
(***************************************************************************)
\* iters.shape[0]
Shape(iters) == CHOOSE k \in 0 .. MaxShape : DOMAIN iters = Cells(k)

\* The list of the cells (i, j), 0 <= i, j < m, for which sel[<<i, j>>] holds,
\* in row-major order, from linear index k on.
RECURSIVE RowMajor(_, _, _)
RowMajor(sel, m, k) ==
    IF k >= m * m THEN <<>>
    ELSE LET c == <<k \div m, k % m>>
         IN (IF sel[c] THEN <<c>> ELSE <<>>) \o RowMajor(sel, m, k + 1)

\* Mutant: a cell with any maxed corner is selected.
frontier_cells_any(iters, max_it) ==
    LET m == Shape(iters) - 1
        iters_maxed == [c \in DOMAIN iters |-> IF iters[c] = max_it THEN 1 ELSE 0]
        cell_corners_maxed ==
            [c \in Cells(m) |->
                iters_maxed[<<c[1], c[2]>>] + iters_maxed[<<c[1] + 1, c[2]>>]
                + iters_maxed[<<c[1], c[2] + 1>>] + iters_maxed[<<c[1] + 1, c[2] + 1>>]]
    IN RowMajor([c \in Cells(m) |-> cell_corners_maxed[c] > 0], m, 0)

\* bbrot.py frontier_cells: the stencil over the maxed grid, np.nonzero order.
frontier_cells(iters, max_it) ==
    LET m == Shape(iters) - 1
        iters_maxed == [c \in DOMAIN iters |-> IF iters[c] = max_it THEN 1 ELSE 0]
        cell_corners_maxed ==
            [c \in Cells(m) |->
                iters_maxed[<<c[1], c[2]>>] + iters_maxed[<<c[1] + 1, c[2]>>]
                + iters_maxed[<<c[1], c[2] + 1>>] + iters_maxed[<<c[1] + 1, c[2] + 1>>]]
        cell_on_border ==
            [c \in Cells(m) |-> cell_corners_maxed[c] > 0 /\ cell_corners_maxed[c] < 4]
    IN RowMajor(cell_on_border, m, 0)

deltas == {<<0, 0>>, <<0, 1>>, <<1, 0>>, <<1, 1>>}

\* Mutant: a cell is on the frontier unless all its corners are maxed.
on_frontier_notall(iters, max_it, i, j) ==
    ~(\A d \in deltas : iters[<<i + d[1], j + d[2]>>] = max_it)

\* mandel.py on_frontier: any(in_m) and not all(in_m)
on_frontier(iters, max_it, i, j) ==
    /\ \E d \in deltas : iters[<<i + d[1], j + d[2]>>] = max_it
    /\ ~(\A d \in deltas : iters[<<i + d[1], j + d[2]>>] = max_it)

\* mandel.py iter_cells: for i in range(steps-1) for j in range(steps-1),
\* steps being the global STEPS.
iter_cells(steps, iters, max_it) ==
    RowMajor([c \in Cells(steps - 1) |-> on_frontier(iters, max_it, c[1], c[2])],
             steps - 1, 0)

\* The 4x4 fixture: the four centre entries maxed, every border entry below.
Centre4 == {<<1, 1>>, <<1, 2>>, <<2, 1>>, <<2, 2>>}
IsFixture(iters, max_it) ==
    /\ DOMAIN iters = Cells(4)
    /\ \A c \in DOMAIN iters :
          IF c \in Centre4 THEN iters[c] = max_it ELSE iters[c] < max_it

FrontierIdle ==
    /\ fr_iters = <<>> /\ fr_max_iters = 0
    /\ fr_cells_v = <<>> /\ fr_cells_s = <<>>
    /\ fr_pc = "idle"

\* Every 3x3 EscapeField with counts up to max_iters, and every 4x4 field
\* of the fixture's shape.
FrontierInit ==
    /\ fr_max_iters = MAX_ITERS_CELLS
    /\ \/ STEPS = 3 /\ fr_iters \in [Cells(3) -> 0 .. MAX_ITERS_CELLS]
       \/ /\ STEPS = 4
          /\ fr_iters \in {f \in [Cells(4) -> {MAX_ITERS_CELLS - 1, MAX_ITERS_CELLS}] :
                              \A c \in Centre4 : f[c] = MAX_ITERS_CELLS}
    /\ fr_cells_v = <<>> /\ fr_cells_s = <<>>
    /\ fr_pc = "start"

\* cells = frontier_cells(iters, MAX_ITERS_CELLS)
FrontierCells ==
    /\ fr_pc = "start"
    /\ fr_cells_v' = frontier_cells(fr_iters, fr_max_iters)
    /\ fr_pc' = "stencil"
    /\ UNCHANGED <<STEPS, renderVars, clVars, itVars, cpVars, fr_iters, fr_max_iters, fr_cells_s>>

\* cells = iter_cells(iters, MAX_ITERS_CELLS)
IterCells ==
    /\ fr_pc = "stencil"
    /\ fr_cells_s' = iter_cells(STEPS, fr_iters, fr_max_iters)
    /\ fr_pc' = "scanned"
    /\ UNCHANGED <<STEPS, renderVars, clVars, itVars, cpVars, fr_iters, fr_max_iters, fr_cells_v>>

(***************************************************************************)
(* Seed persistence: save_seeds writes json.dumps of the seed list,        *)
(* load_seeds parses it back.  A JSON number is its sequence of characters;*)
(* a float is written as repr does, an int in decimal.                     *)
(***************************************************************************)
Digit(d) == <<"0", "1", "2", "3", "4", "5", "6", "7", "8", "9">>[d + 1]
DigitVal(ch) == CHOOSE d \in 0 .. 9 : Digit(d) = ch

RECURSIVE NatDigits(_)
NatDigits(k) ==
    IF k < 10 THEN <<Digit(k)>> ELSE NatDigits(k \div 10) \o <<Digit(k % 10)>>

RECURSIVE ParseNat(_)
ParseNat(cs) ==
    IF cs = <<>> THEN 0
    ELSE ParseNat(SubSeq(cs, 1, Len(cs) - 1)) * 10 + DigitVal(cs[Len(cs)])

Abs(k) == IF k < 0 THEN -k ELSE k
SignChars(k) == IF k < 0 THEN <<"-">> ELSE <<>>
Unsigned(cs) == IF cs # <<>> /\ cs[1] = "-" THEN Tail(cs) ELSE cs
Signed(cs, k) == IF cs # <<>> /\ cs[1] = "-" THEN -k ELSE k

\* json.dumps of an int
int_repr(k) == SignChars(k) \o NatDigits(Abs(k))
\* json.dumps of a float (float.__repr__): integer part, point, fraction
float_repr(x) ==
    SignChars(x) \o NatDigits(Abs(x) \div FIX) \o <<".">>
        \o NatDigits(((Abs(x) % FIX) * 10) \div FIX)

\* json.load of a number without a fraction
parse_int(cs) == Signed(cs, ParseNat(Unsigned(cs)))
\* json.load of a number with a fraction
parse_float(cs) ==
    LET u == Unsigned(cs)
        dot == CHOOSE k \in DOMAIN u : u[k] = "."
    IN Signed(cs, ParseNat(SubSeq(u, 1, dot - 1)) * FIX
                  + (ParseNat(SubSeq(u, dot + 1, Len(u))) * FIX) \div 10)

\* Mutant: the seed's x is written for both coordinates.
save_seeds_xx(sds) ==
    [pointList |-> [k \in DOMAIN sds |->
        [pointX |-> float_repr(sds[k][1]), pointY |-> float_repr(sds[k][1]),
         orbitLength |-> int_repr(sds[k][3])]]]

\* save_seeds: the object written to the file
save_seeds(sds) ==
    [pointList |-> [k \in DOMAIN sds |->
        [pointX |-> float_repr(sds[k][1]), pointY |-> float_repr(sds[k][2]),
         orbitLength |-> int_repr(sds[k][3])]]]

SeedFields == {"pointX", "pointY", "orbitLength"}
\* load_seeds raises KeyError when 'pointList' or a field of a point is missing.
LoadFails(obj) ==
    \/ "pointList" \notin DOMAIN obj
    \/ \E k \in DOMAIN obj.pointList : ~(SeedFields \subseteq DOMAIN obj.pointList[k])

\* load_seeds: the list of (x, y, orbitLength) tuples of a well-formed file
load_seeds(obj) ==
    [k \in DOMAIN obj.pointList |->
        <<parse_float(obj.pointList[k].pointX), parse_float(obj.pointList[k].pointY),
          parse_int(obj.pointList[k].orbitLength)>>]

(***************************************************************************)
(* compute (bbrot.py) and main (mandel.py), from the grid's EscapeField on.*)
(***************************************************************************)
\* cells = frontier_cells(iters, MAX_ITERS_CELLS); print('cell count:', ...)
\* mandel.py has written mandel.png before.
ComputeCells ==
    /\ cp_pc = "cells"
    /\ cp_cells' = IF cp_variant = "bbrot"
                   THEN frontier_cells(cp_field, MAX_ITERS_CELLS)
                   ELSE iter_cells(STEPS, cp_field, MAX_ITERS_CELLS)
    /\ cp_log' = Append(cp_log, <<"cell count", Len(cp_cells')>>)
    /\ cp_fs' = IF cp_variant = "mandel"
                THEN cp_fs \cup {[name |-> "mandel.png", content |-> "image"]}
                ELSE cp_fs
    /\ cp_pc' = "sample"
    /\ UNCHANGED <<STEPS, renderVars, clVars, itVars, frVars, cp_variant, cp_field, cp_rand,
                   cp_sample_iters, cp_seeds>>

\* seeds = sample_cells(ctx, cq, prog, x0, y0, cells); print('seed count:', ...)
\* SAMPLES // len(cells) of an empty list raises ZeroDivisionError.
SampleCells ==
    /\ cp_pc = "sample"
    /\ IF cp_cells = <<>>
       THEN /\ cp_pc' = "ZeroDivisionError"
            /\ UNCHANGED <<cp_rand, cp_sample_iters, cp_seeds, cp_log>>
       ELSE \E rand \in RandPoints(STEPS, cp_cells) :
            /\ cp_rand' = rand
            /\ cp_sample_iters' = mandel_iters(cp_variant, MAX_ITERS_SAMPLES, cp_rand')
            /\ cp_seeds' = RetainSeeds(cp_rand', cp_sample_iters', 0)
            /\ cp_log' = Append(cp_log, <<"seed count", Len(cp_seeds')>>)
            /\ cp_pc' = "seeds"
    /\ UNCHANGED <<STEPS, renderVars, clVars, itVars, frVars, cp_variant, cp_field, cp_cells,
                   cp_fs>>

\* compute: if not(seeds): return; save_seeds(seeds, seed_name)
ComputeSave ==
    /\ cp_pc = "seeds" /\ cp_variant = "bbrot"
    /\ cp_fs' = IF cp_seeds = <<>> THEN cp_fs
                ELSE cp_fs \cup {[name |-> "seeds.json", content |-> save_seeds(cp_seeds)]}
    /\ cp_pc' = "returned"
    /\ UNCHANGED <<STEPS, renderVars, clVars, itVars, frVars, cp_variant, cp_field, cp_cells,
                   cp_rand, cp_sample_iters, cp_seeds, cp_log>>

\* main: save_seeds(seeds, ...); counts = render_seeds(ctx, cq, prog, seeds)
MainSave ==
    /\ cp_pc = "seeds" /\ cp_variant = "mandel"
    /\ cp_fs' = cp_fs \cup {[name |-> "seeds.json", content |-> save_seeds(cp_seeds)]}
    /\ cp_pc' = "render_seeds"
    /\ UNCHANGED <<STEPS, renderVars, clVars, itVars, frVars, cp_variant, cp_field, cp_cells,
                   cp_rand, cp_sample_iters, cp_seeds, cp_log>>

(***************************************************************************)
(* render and animate subcommands (do_render, do_animate): the input files *)
(* are loaded by do_load_seeds before anything else is done.               *)
(***************************************************************************)
PersistTriples == {<<-3, 1, 2>>, <<0, -21, 12>>, <<25, 4, 105>>}
SaveLists == UNION {[1 .. k -> PersistTriples] : k \in 0 .. MaxFileSeeds}
\* tot_frames = ANIMATE_SECONDS * ANIMATE_FPS
tot_frames == ANIMATE_SECONDS * ANIMATE_FPS
\* step = max_iters // tot_frames, with max_iters = MIN_ITERS_SAMPLES
animate_step == MIN_ITERS_SAMPLES \div tot_frames

\* list(range(start, stop, step)) for a positive step
RECURSIVE py_range(_, _, _)
py_range(start, stop, step) ==
    IF start >= stop THEN <<>>
    ELSE <<start>> \o py_range(start + step, stop, step)

\* Mutant: the stop of the range is max_iters.
animate_checkpoints_short ==
    IF animate_step = 0 THEN <<>>
    ELSE py_range(animate_step, MIN_ITERS_SAMPLES, animate_step)

\* iter_checkpoints = list(range(step, max_iters+step, step))
animate_checkpoints ==
    IF animate_step = 0 THEN <<>>
    ELSE py_range(animate_step, MIN_ITERS_SAMPLES + animate_step, animate_step)

\* The object with field f of point j removed.
DropField(obj, j, f) ==
    [pointList |-> [k \in DOMAIN obj.pointList |->
        IF k = j
        THEN [g \in (DOMAIN obj.pointList[k]) \ {f} |-> obj.pointList[k][g]]
        ELSE obj.pointList[k]]]

\* Mutant: an empty seed list is accepted.
NoInput_never(sds) == FALSE

\* if not seeds: print('error: no input'); sys.exit(1)
NoInput(sds) == sds = <<>>

CliIdle ==
    /\ cl_cmd = "render" /\ cl_src = <<>> /\ cl_disk = <<>> /\ cl_damaged = FALSE
    /\ cl_i = 0 /\ cl_seeds = <<>> /\ cl_accel = FALSE /\ cl_images = {}
    /\ cl_frames = <<>>
    /\ cl_pc = "idle"

\* One or two input files named on the command line, not yet written.
CliInit ==
    /\ cl_cmd \in {"render", "animate"}
    /\ cl_src \in UNION {[1 .. k -> SaveLists] : k \in 1 .. 2}
    /\ cl_disk = <<>> /\ cl_damaged = FALSE
    /\ cl_i = 0 /\ cl_seeds = <<>> /\ cl_accel = FALSE /\ cl_images = {}
    /\ cl_frames = <<>>
    /\ cl_pc = "files"

\* An earlier run has written the next input file with save_seeds.
SaveSeedFile ==
    /\ cl_pc = "files" /\ Len(cl_disk) < Len(cl_src)
    /\ cl_disk' = Append(cl_disk, save_seeds(cl_src[Len(cl_disk) + 1]))
    /\ UNCHANGED <<STEPS, renderVars, itVars, frVars, cpVars, cl_cmd, cl_src, cl_damaged,
                   cl_i, cl_seeds, cl_accel, cl_images, cl_frames, cl_pc>>

\* An input file is not as save_seeds left it: a field of a point is missing.
DamageFile ==
    /\ cl_pc = "files" /\ ~cl_damaged
    /\ \E k \in DOMAIN cl_disk : \E j \in DOMAIN cl_disk[k].pointList :
       \E f \in SeedFields :
          cl_disk' = [cl_disk EXCEPT ![k] = DropField(cl_disk[k], j, f)]
    /\ cl_damaged' = TRUE
    /\ UNCHANGED <<STEPS, renderVars, itVars, frVars, cpVars, cl_cmd, cl_src,
                   cl_i, cl_seeds, cl_accel, cl_images, cl_frames, cl_pc>>

\* do_render / do_animate: seeds = do_load_seeds(args.seeds); seeds = []
DoLoadSeeds ==
    /\ cl_pc = "files" /\ Len(cl_disk) = Len(cl_src)
    /\ cl_i' = 1 /\ cl_seeds' = <<>>
    /\ cl_pc' = "for_fname"
    /\ UNCHANGED <<STEPS, renderVars, itVars, frVars, cpVars, cl_cmd, cl_src, cl_disk,
                   cl_damaged, cl_accel, cl_images, cl_frames>>

\* for fname in fnames: seeds.extend(load_seeds(fname))
LoadFile ==
    /\ cl_pc = "for_fname" /\ cl_i <= Len(cl_disk)
    /\ IF LoadFails(cl_disk[cl_i])
       THEN cl_pc' = "KeyError" /\ UNCHANGED <<cl_i, cl_seeds>>
       ELSE /\ cl_seeds' = cl_seeds \o load_seeds(cl_disk[cl_i])
            /\ cl_i' = cl_i + 1
            /\ cl_pc' = "for_fname"
    /\ UNCHANGED <<STEPS, renderVars, itVars, frVars, cpVars, cl_cmd, cl_src, cl_disk,
                   cl_damaged, cl_accel, cl_images, cl_frames>>

\* if not seeds: sys.exit(1); return seeds
LoadCheck ==
    /\ cl_pc = "for_fname" /\ cl_i > Len(cl_disk)
    /\ cl_pc' = IF NoInput(cl_seeds) THEN "exit" ELSE "cl_init"
    /\ UNCHANGED <<STEPS, renderVars, itVars, frVars, cpVars, cl_cmd, cl_src, cl_disk,
                   cl_damaged, cl_i, cl_seeds, cl_accel, cl_images, cl_frames>>

\* render / animate: ctx, cq, prog = cl_init()
ClInit ==
    /\ cl_pc = "cl_init"
    /\ cl_accel' = TRUE
    /\ cl_pc' = cl_cmd
    /\ UNCHANGED <<STEPS, renderVars, itVars, frVars, cpVars, cl_cmd, cl_src, cl_disk,
                   cl_damaged, cl_i, cl_seeds, cl_images, cl_frames>>

\* render: counts = render_seeds(...); img.save(img_name)
RenderImage ==
    /\ cl_pc = "render"
    /\ cl_images' = cl_images \cup {"output"}
    /\ cl_pc' = "done"
    /\ UNCHANGED <<STEPS, renderVars, itVars, frVars, cpVars, cl_cmd, cl_src, cl_disk,
                   cl_damaged, cl_i, cl_seeds, cl_accel, cl_frames>>

\* animate: iter_checkpoints = list(range(step, max_iters+step, step)), then
\* for i, counts in enumerate(render_seeds_gen(...), start=1): img.save(...)
\* The generator yields once per checkpoint, in order; range() raises
\* ValueError on a zero step.
AnimateFrame ==
    /\ cl_pc = "animate"
    /\ IF animate_step = 0
       THEN cl_pc' = "ValueError" /\ UNCHANGED <<cl_images, cl_frames>>
       ELSE IF Len(cl_frames) < Len(animate_checkpoints)
       THEN /\ cl_frames' = Append(cl_frames, animate_checkpoints[Len(cl_frames) + 1])
            /\ cl_images' = cl_images \cup {Len(cl_frames')}
            /\ cl_pc' = "animate"
       ELSE cl_pc' = "done" /\ UNCHANGED <<cl_images, cl_frames>>
    /\ UNCHANGED <<STEPS, renderVars, itVars, frVars, cpVars, cl_cmd, cl_src, cl_disk,
                   cl_damaged, cl_i, cl_seeds, cl_accel>>

\* No scheduler run: the render variables at rest.
RenderIdle ==
    /\ variant = "bbrot" /\ consumer = "render_seeds"
    /\ seeds = <<>> /\ iter_checkpoints = <<-1>> /\ nbufs = 0
    /\ seed_list = <<>> /\ done = <<>> /\ buff = <<>> /\ counts = <<>>
    /\ unfinished = <<>> /\ n = 0 /\ zi = 0 /\ ck = 0 /\ pc = "idle"
    /\ seed_list_d = <<>> /\ x_d = <<>> /\ y_d = <<>> /\ buff_d = <<>>
    /\ iters_d = <<>> /\ done_d = <<>>
    /\ queue = <<>>
    /\ rounds = 0 /\ dispatches = 0 /\ emitted = <<>> /\ race = FALSE
    /\ max_outstanding = 0 /\ assigned = <<>> /\ served = {}

\* animate: prev = zeros before the first frame; diff = counts - prev
animate_diff(hists, k) ==
    [c \in DOMAIN hists[k] |->
        hists[k][c] - (IF k = 1 THEN 0 ELSE hists[k - 1][c])]

Init == RenderInit /\ ItersIdle /\ FrontierIdle /\ ComputeIdle /\ CliIdle

Next ==
    \/ ForCheckpoint \/ WhileHead \/ Assign \/ CopySeedList \/ Dispatch \/ Finish
    \/ CopyDone \/ ReadBuff \/ Yield \/ ResetDone \/ CopyReset
    \/ MWhileHead \/ MEnqueue \/ MFinish \/ MCopyDone \/ MReadBuffs \/ MFinish2 \/ MMerge
    \/ DeviceTrace \/ DeviceTrace1 \/ DeviceCopy

Spec == Init /\ [][Next]_vars

\* The scheduler under fairness.  Seed lists of up to MaxSeedsLive.
InitLive == Init /\ NumSeeds <= MaxSeedsLive

\* The steps of the host thread, which runs whenever it is not blocked.
HostNext ==
    \/ ForCheckpoint \/ WhileHead \/ Assign \/ CopySeedList \/ Dispatch \/ Finish
    \/ CopyDone \/ ReadBuff \/ Yield \/ ResetDone \/ CopyReset
    \/ MWhileHead \/ MEnqueue \/ MFinish \/ MCopyDone \/ MReadBuffs \/ MFinish2 \/ MMerge

\* The device executes every command enqueued to it: a device step is enabled
\* exactly when the queue holds a command, and the queue drains again and again.
DeviceRuns == []<>(queue = <<>>)

SpecLive == InitLive /\ [][Next]_vars /\ WF_vars(HostNext) /\ DeviceRuns

InitIters == STEPS = 3 /\ RenderIdle /\ ItersInit /\ FrontierIdle /\ ComputeIdle /\ CliIdle
NextIters == ItersDispatch \/ ItersReturn
SpecIters == InitIters /\ [][NextIters]_vars

InitFrontier == RenderIdle /\ ItersIdle /\ FrontierInit /\ ComputeIdle /\ CliIdle
NextFrontier == FrontierCells \/ IterCells
SpecFrontier == InitFrontier /\ [][NextFrontier]_vars

InitCompute == RenderIdle /\ ItersIdle /\ FrontierIdle /\ ComputeInit /\ CliIdle
NextCompute == ComputeCells \/ SampleCells \/ ComputeSave \/ MainSave
SpecCompute == InitCompute /\ [][NextCompute]_vars

InitCli == STEPS = 3 /\ RenderIdle /\ ItersIdle /\ FrontierIdle /\ ComputeIdle /\ CliInit
NextCli ==
    \/ SaveSeedFile \/ DamageFile \/ DoLoadSeeds \/ LoadFile \/ LoadCheck
    \/ ClInit \/ RenderImage \/ AnimateFrame
SpecCli == InitCli /\ [][NextCli]_vars

(***************************************************************************)
(* Claims.                                                                 *)
(***************************************************************************)
Returned == pc = "returned"

C2_CheckpointHistograms ==
    variant = "bbrot" =>
        \A k \in 1 .. Len(emitted) :
            emitted[k] = ExpectedHist(STEPS, seeds, iter_checkpoints[k])

\* A second checkpoint has been yielded, after a seed that was resumed moved
\* to another slot, and with a seed cut short by the first checkpoint.
C2_Witness ==
    /\ variant = "bbrot" /\ Len(emitted) = 2 /\ NumSeeds >= 3
    /\ \E i \in DOMAIN seeds : iter_checkpoints[1] < seeds[i][3]
    /\ \E i \in DOMAIN seeds : iter_checkpoints[1] >= seeds[i][3]
    /\ emitted[1] # emitted[2]

\* The while loop of the current pass has just been left.
LoopExited == pc \in {"read_buff", "m_read"}
PassBound(k) == IF variant = "mandel" THEN -1 ELSE iter_checkpoints[k]
\* Orbit steps seed t has left to replay in pass k.
PassSteps(t, k) ==
    Target(t, PassBound(k)) - (IF k <= 1 THEN 0 ELSE Target(t, PassBound(k - 1)))
\* Dispatches seed t must be part of in pass k before it is marked done.
DispatchesNeeded(t, k) == Max(1, CeilDiv(PassSteps(t, k), MAX_LOOPS))

\* C3 as stated: the per-checkpoint loop ends after at most ceil(S/N) rounds.
C3_AtMostCeilRounds ==
    LoopExited => rounds <= CeilDiv(NumSeeds, nbufs)

\* C3 amended: at most ceil(S/N) rounds when every seed's replay for the pass
\* fits in one dispatch (at most MAX_LOOPS steps); in general at most the sum
\* over the seeds of the dispatches each one needs.
C3_RoundsBound ==
    LoopExited =>
        /\ rounds <= SumOver([i \in DOMAIN seeds |-> DispatchesNeeded(seeds[i], ck)],
                             DOMAIN seeds)
        /\ (\A i \in DOMAIN seeds : PassSteps(seeds[i], ck) <= MAX_LOOPS)
               => rounds <= CeilDiv(NumSeeds, nbufs)

\* Five seeds, each done in one dispatch, pool of two: three rounds.
C3_Witness ==
    /\ LoopExited /\ NumSeeds = 5 /\ nbufs = 2 /\ rounds = 3
    /\ \A i \in DOMAIN seeds : PassSteps(seeds[i], ck) <= MAX_LOOPS

\* C4 as stated: with no seeds, no dispatch is issued, the run does not end in
\* an error and every histogram handed out is all zero, in both variants.
C4_EmptySeedList ==
    NumSeeds = 0 =>
        /\ dispatches = 0
        /\ pc # "IndexError"
        /\ \A k \in 1 .. Len(emitted) : emitted[k] = ZeroHist(STEPS)

\* C5: exchanging any two seeds of the list (the exchanges generate every
\* permutation, and every seed list is an input) leaves the histogram
\* render_seeds returns unchanged, cell for cell.
C5_OrderIndependent ==
    (Returned /\ variant = "bbrot") =>
        \A i \in DOMAIN seeds : \A j \in DOMAIN seeds :
            render_seeds(STEPS, MAX_RENDER_BUFS, Swap(seeds, i, j)) = counts

\* Seeds of different orbits, more seeds than slots, a histogram returned.
C5_Witness ==
    /\ Returned /\ variant = "bbrot" /\ NumSeeds > nbufs
    /\ \E i \in DOMAIN seeds : \E j \in DOMAIN seeds : seeds[i] # seeds[j]
    /\ HistTotal(counts) > 0

MaxBufs == IF variant = "bbrot" THEN MAX_RENDER_BUFS ELSE MANDEL_MAX_RENDER_BUFS

\* C6: the pool has N = min(MAX_RENDER_BUFS, |seeds|) slots throughout, no
\* round uses a slot index >= N or more than N work items, and
\* N * STEPS^2 * 4 bytes is within MAX_RENDER_BUF_MEM.
C6_PoolWithinBudget ==
    /\ nbufs = Min(MaxBufs, NumSeeds)
    /\ nbufs * STEPS * STEPS * BYTES_PER_COUNT <= MAX_RENDER_BUF_MEM
    /\ DOMAIN buff_d = Range0(nbufs) /\ DOMAIN buff = Range0(nbufs)
    /\ n <= nbufs
    /\ \A q \in DOMAIN queue :
          IF queue[q].op = "trace" THEN queue[q].k <= nbufs
          ELSE queue[q].slot < nbufs

\* More seeds than the budget allows slots, a later round in flight.
C6_Witness ==
    /\ NumSeeds > MaxBufs /\ nbufs = MaxBufs /\ rounds >= 2 /\ queue # <<>>

\* C7 as stated: no host access while a command is in flight, and never two
\* dispatches outstanding.
C7_NoOverlap ==
    /\ ~race
    /\ max_outstanding <= 1

\* C7 amended: no host access while a command is in flight; render_seeds_gen
\* never has two dispatches outstanding; mandel.py's render_seeds has at most
\* N, one per slot and per seed, enqueued back to back before one finish.
C7_NoHostAccessInFlight ==
    /\ ~race
    /\ variant = "bbrot" => max_outstanding <= 1
    /\ variant = "mandel" =>
          /\ KernelsIn(queue) <= nbufs
          /\ \A a \in DOMAIN queue : \A b \in DOMAIN queue :
                (a # b /\ IsKernel(queue[a]) /\ IsKernel(queue[b]))
                    => /\ queue[a].slot # queue[b].slot
                       /\ queue[a].seed # queue[b].seed

\* mandel.py: two dispatches outstanding at once.
C7_Witness ==
    /\ variant = "mandel" /\ KernelsIn(queue) = 2 /\ ~race

\* The seed is a fixed point of its own map and inside the escape radius: its
\* orbit never diverges.
NeverDiverges(pt) ==
    /\ ~Escaped(pt[1], pt[2])
    /\ StepX(pt[1], pt[1], pt[2]) = pt[1]
    /\ StepY(pt[2], pt[1], pt[2]) = pt[2]

\* C8 as stated: under either dispatch-count rule, mandel_iters returns for
\* every point a count in 0..max_iters, and exactly max_iters for a point that
\* never diverges.
C8_CountsWithinHorizon ==
    it_pc = "returned" =>
        \A i \in DOMAIN it_points :
            /\ it_result[i] \in 0 .. it_max_iters
            /\ NeverDiverges(it_points[i]) => it_result[i] = it_max_iters

\* The corner count of cell c: how many of its four corners are maxed.
CornersMaxed(iters, max_it, c) ==
    Cardinality({d \in deltas : iters[<<c[1] + d[1], c[2] + d[2]>>] = max_it})
\* Position of cell c in the row-major listing of an m x m cell grid.
RowMajorBefore(a, b) == a[1] < b[1] \/ (a[1] = b[1] /\ a[2] < b[2])
\* The boolean maxed grid of a field, as a field with max_iters 1.
MaxedGrid(iters, max_it) ==
    [c \in DOMAIN iters |-> IF iters[c] = max_it THEN 1 ELSE 0]
InSeq(c, sq) == \E k \in DOMAIN sq : sq[k] = c

\* C9: a cell is returned iff its count of maxed corners is strictly between
\* 0 and 4; frontier_cells and iter_cells return the same cells in the same
\* (row-major) order, each once; the result is that of the boolean maxed grid.
C9_FrontierEquivalence ==
    fr_pc = "scanned" =>
        /\ fr_cells_v = fr_cells_s
        /\ \A c \in Cells(STEPS - 1) :
              InSeq(c, fr_cells_v) <=>
                  (CornersMaxed(fr_iters, fr_max_iters, c) \in 1 .. 3)
        /\ \A a \in DOMAIN fr_cells_v : \A b \in DOMAIN fr_cells_v :
              a < b => RowMajorBefore(fr_cells_v[a], fr_cells_v[b])
        /\ fr_cells_v = frontier_cells(MaxedGrid(fr_iters, fr_max_iters), 1)
        /\ fr_cells_s = iter_cells(STEPS, MaxedGrid(fr_iters, fr_max_iters), 1)

\* A field with a cell fully inside, a cell fully outside and frontier cells,
\* and with non-maxed counts that differ.
C9_Witness ==
    /\ fr_pc = "scanned" /\ STEPS = 3
    /\ \E c \in Cells(2) : CornersMaxed(fr_iters, fr_max_iters, c) = 0
    /\ \E c \in Cells(2) : CornersMaxed(fr_iters, fr_max_iters, c) = 2
    /\ Len(fr_cells_v) = 2
    /\ \E a \in DOMAIN fr_iters : \E b \in DOMAIN fr_iters :
          fr_iters[a] < fr_iters[b] /\ fr_iters[b] < fr_max_iters

\* C10 as stated: on the 4x4 fixture frontier extraction returns exactly 4
\* cells.
C10_FourCells ==
    (fr_pc = "scanned" /\ IsFixture(fr_iters, fr_max_iters)) =>
        Len(fr_cells_v) = 4 /\ Len(fr_cells_s) = 4

\* C10 amended: on the 4x4 fixture frontier extraction returns exactly the 8
\* cells around the centre cell (1, 1), whose four corners are all maxed.
C10_EightCells ==
    (fr_pc = "scanned" /\ IsFixture(fr_iters, fr_max_iters)) =>
        /\ fr_cells_v = <<<<0, 0>>, <<0, 1>>, <<0, 2>>, <<1, 0>>,
                          <<1, 2>>, <<2, 0>>, <<2, 1>>, <<2, 2>>>>
        /\ fr_cells_s = fr_cells_v

\* Both extractions have run on the fixture.
C10_Witness ==
    /\ fr_pc = "scanned" /\ IsFixture(fr_iters, fr_max_iters)
    /\ Len(fr_cells_v) = 8 /\ ~InSeq(<<1, 1>>, fr_cells_s)

\* sample_cells has returned.
Sampled == cp_pc \in {"seeds", "returned", "render_seeds"}
SampleTriple(k) == <<cp_rand[k][1], cp_rand[k][2], cp_sample_iters[k]>>

\* C11: every seed sample_cells returns has MIN_ITERS_SAMPLES < orbitLength <
\* MAX_ITERS_SAMPLES; a sample whose count is at or beyond either bound is not
\* retained, every sample strictly inside the window is, once each.
C11_SamplingWindow ==
    Sampled =>
        /\ \A j \in DOMAIN cp_seeds :
              cp_seeds[j][3] > MIN_ITERS_SAMPLES /\ cp_seeds[j][3] < MAX_ITERS_SAMPLES
        /\ \A k \in DOMAIN cp_rand :
              IF cp_sample_iters[k] > MIN_ITERS_SAMPLES
                 /\ cp_sample_iters[k] < MAX_ITERS_SAMPLES
              THEN InSeq(SampleTriple(k), cp_seeds)
              ELSE ~InSeq(SampleTriple(k), cp_seeds)
        /\ Len(cp_seeds) =
              Cardinality({k \in DOMAIN cp_rand :
                              cp_sample_iters[k] > MIN_ITERS_SAMPLES
                              /\ cp_sample_iters[k] < MAX_ITERS_SAMPLES})

\* One sample at each bound (one of them never escaped) and one inside.
C11_Witness ==
    /\ Sampled
    /\ \E k \in DOMAIN cp_rand : cp_sample_iters[k] = MIN_ITERS_SAMPLES
    /\ \E k \in DOMAIN cp_rand : cp_sample_iters[k] = MAX_ITERS_SAMPLES
    /\ Len(cp_seeds) = 1

\* C12 as stated: in compute, zero frontier cells and zero accepted seeds both
\* end the run without an error, the count reported and no seed file written.
C12_EmptyResultsNonFatal ==
    (cp_variant = "bbrot" /\ cp_pc \notin {"cells", "sample", "seeds"}
     /\ (cp_cells = <<>> \/ cp_seeds = <<>>)) =>
        /\ cp_pc = "returned"
        /\ cp_fs = {}
        /\ cp_log # <<>>

\* The load has failed: a missing field, or no seeds in any input file.
LoadFailed == cl_pc \in {"KeyError", "exit"}
RECURSIVE ConcatLists(_)
ConcatLists(ls) == IF ls = <<>> THEN <<>> ELSE Head(ls) \o ConcatLists(Tail(ls))

\* C13: after a failed load the accelerator has not been initialised and no
\* image file exists; the accelerator is initialised and images are written
\* only when every input file has every field and the files hold a seed.
C13_FailedLoadNoOutput ==
    /\ LoadFailed => (~cl_accel /\ cl_images = {})
    /\ (cl_accel \/ cl_images # {}) =>
          /\ \A k \in DOMAIN cl_disk : ~LoadFails(cl_disk[k])
          /\ \E k \in DOMAIN cl_disk : cl_disk[k].pointList # <<>>

\* The second of two input files lacks a field; the first was loaded.
C13_Witness ==
    /\ cl_pc = "KeyError" /\ cl_i = 2 /\ cl_seeds # <<>>
    /\ ~LoadFails(cl_disk[1]) /\ LoadFails(cl_disk[2])

\* C14: load_seeds applied to a file as save_seeds wrote it returns the
\* seeds given to save_seeds: as many, in the same order, with the same
\* (x, y, orbitLength).
C14_SeedRoundTrip ==
    (cl_pc = "for_fname" /\ ~cl_damaged) =>
        cl_seeds = ConcatLists(SubSeq(cl_src, 1, cl_i - 1))

\* Two files loaded back, with negative, fractional and multi-digit values.
C14_Witness ==
    /\ cl_pc = "for_fname" /\ ~cl_damaged /\ cl_i = 3
    /\ cl_seeds = <<<<-3, 1, 2>>, <<25, 4, 105>>, <<0, -21, 12>>>>

\* The dispatches of a round have been issued and the host's DoneSet is still
\* the one the round was chosen from.
RoundIssued == pc \in {"finish", "copy_done", "m_finish", "m_copy_done"}
HostUnfinished == {i \in DOMAIN seeds : done[i] = 0}

\* C15: the seeds dispatched in a round are the min(N, |unfinished|)
\* lowest-index seeds whose host done flag is 0, slot k receives the k-th of
\* them, and no seed has two slots nor any slot two seeds.
C15_LowestUnfinishedFirst ==
    RoundIssued =>
        /\ Len(assigned) = Min(nbufs, Cardinality(HostUnfinished))
        /\ \A b \in DOMAIN assigned : assigned[b] \in HostUnfinished
        /\ \A a \in DOMAIN assigned : \A b \in DOMAIN assigned :
              a < b => assigned[a] < assigned[b]
        /\ \A i \in HostUnfinished :
              ~InSeq(i, assigned) => \A b \in DOMAIN assigned : assigned[b] < i
        /\ variant = "bbrot" =>
              \A b \in DOMAIN assigned : seed_list_d[b - 1] = assigned[b]
        /\ \A q \in DOMAIN queue :
              /\ queue[q].op = "trace" => queue[q].k = Len(assigned)
              /\ queue[q].op = "trace1" => assigned[queue[q].slot + 1] = queue[q].seed

\* A later round: a done seed is skipped and seeds are left waiting.
C15_Witness ==
    /\ RoundIssued /\ rounds >= 2 /\ Len(assigned) = 2
    /\ \E i \in DOMAIN seeds : done[i] = 1 /\ i < assigned[2]
    /\ Cardinality(HostUnfinished) > 2

AllDone == \A i \in DOMAIN seeds : done[i] = 1 /\ done_d[i] = 1

\* C17: render_seeds_gen emits one histogram per checkpoint, in checkpoint
\* order; a histogram is emitted only when every seed's done flag is set and
\* nothing is in flight; no dispatch for a checkpoint is issued before the
\* previous checkpoint's histogram has been emitted.
C17_OneHistogramPerCheckpoint ==
    /\ [](variant = "bbrot" =>
            /\ pc \in {"while", "assign", "copy_seed_list", "dispatch", "finish",
                       "copy_done", "read_buff", "yield"} => Len(emitted) = ck - 1
            /\ pc \in {"for", "reset_done", "copy_reset", "returned", "exhausted"}
                  => Len(emitted) = ck
            /\ pc = "exhausted" => Len(emitted) = Len(iter_checkpoints)
            /\ \A q \in DOMAIN queue :
                  queue[q].op = "trace" =>
                      queue[q].max_iters = iter_checkpoints[Len(emitted) + 1])
    /\ [][(variant = "bbrot" /\ emitted' # emitted) =>
            /\ emitted' = Append(emitted, counts')
            /\ AllDone /\ queue = <<>>
            /\ counts' = ExpectedHist(STEPS, seeds, iter_checkpoints[Len(emitted')])]_vars

\* Both histograms of a two-checkpoint run have been emitted.
C17_Witness ==
    /\ variant = "bbrot" /\ pc = "exhausted" /\ Len(iter_checkpoints) = 2
    /\ Len(emitted) = 2 /\ NumSeeds >= 2 /\ dispatches >= 2

\* C18: at the start of every checkpoint pass the DoneSet is all-false on the
\* host and on the device; whenever the host computes the unfinished list its
\* DoneSet equals the device's; every seed is dispatched in every pass.
C18_DoneSetReset ==
    /\ (pc \in {"while", "m_while"} /\ rounds = 0) =>
          \A i \in DOMAIN seeds : done[i] = 0 /\ done_d[i] = 0
    /\ pc \in {"while", "m_while"} => (done = done_d /\ queue = <<>>)
    /\ LoopExited => served = DOMAIN seeds

\* The second pass is about to start, after a first pass that finished seeds.
C18_Witness ==
    /\ variant = "bbrot" /\ pc = "while" /\ rounds = 0 /\ ck = 2 /\ NumSeeds >= 2
    /\ Len(emitted) = 1 /\ HistTotal(emitted[1]) > 0

\* The current pass's histogram has been emitted.
PassEmitted == variant = "bbrot" /\ Len(emitted) = ck

\* C19: within a pass a done flag, once set, stays set until the pass's
\* histogram has been emitted; a seed whose done flag is set on the host is
\* not assigned a slot nor dispatched; the number of seeds never changes.
C19_DoneMonotonic ==
    /\ [][(\A i \in DOMAIN seeds :
                /\ done[i] = 1 => done'[i] = 1
                /\ done_d[i] = 1 => done_d'[i] = 1)
          \/ PassEmitted]_vars
    /\ [][seeds' = seeds]_vars
    /\ [](/\ DOMAIN done = DOMAIN seeds /\ DOMAIN done_d = DOMAIN seeds
          /\ pc \in {"copy_seed_list", "dispatch"} =>
                \A b \in Range0(n) : done[seed_list[b]] = 0
          /\ RoundIssued => \A b \in DOMAIN assigned : done[assigned[b]] = 0
          /\ \A q \in DOMAIN queue :
                queue[q].op = "trace1" => done[queue[q].seed] = 0)

\* A round is in flight while an earlier seed is already done.
C19_Witness ==
    /\ RoundIssued /\ queue # <<>> /\ assigned # <<>>
    /\ \E i \in DOMAIN seeds : done[i] = 1

\* C20: only the device writes the slot buffers, the (x, y) state and the
\* iteration counters, and it only adds to the buffers and counters; every
\* histogram emitted is cell for cell at least the previous one, and the
\* difference animate computes is never negative.
C20_HistogramsGrow ==
    /\ [](variant = "bbrot" =>
            \A k \in DOMAIN emitted : \A c \in Cells(STEPS) :
                /\ animate_diff(emitted, k)[c] >= 0
                /\ k > 1 => emitted[k][c] >= emitted[k - 1][c])
    /\ [][/\ Len(queue') >= Len(queue) => UNCHANGED <<x_d, y_d, iters_d, buff_d>>
          /\ \A b \in DOMAIN buff_d : \A c \in Cells(STEPS) :
                buff_d'[b][c] >= buff_d[b][c]
          /\ \A i \in DOMAIN seeds : iters_d'[i] >= iters_d[i]]_vars

\* The second frame adds visits to the first.
C20_Witness ==
    /\ variant = "bbrot" /\ Len(emitted) = 2
    /\ HistTotal(emitted[1]) > 0
    /\ HistTotal(animate_diff(emitted, 2)) > 0

Terminated == pc \in {"returned", "exhausted", "IndexError"}
AtLoopHead == pc \in {"while", "m_while"}
InLoop ==
    pc \in {"while", "assign", "copy_seed_list", "dispatch", "finish", "copy_done",
            "m_while", "m_enqueue", "m_finish", "m_copy_done"}

\* C16: the run ends and every checkpoint's repeat-until-done loop, once
\* entered, is left; the loop is left only when every seed is done and has
\* been dispatched in the pass (so every unfinished seed gets its dispatch,
\* and the loop is never left while a seed is not done); inside the loop the
\* pass has emitted no histogram yet; a round is issued whenever a seed is
\* unfinished, whatever the number of rounds before.
C16_LoopTerminates ==
    /\ <>Terminated
    /\ AtLoopHead ~> LoopExited
    /\ [](LoopExited => (AllDone /\ served = DOMAIN seeds))
    /\ [](InLoop => Len(emitted) = (IF variant = "bbrot" THEN ck - 1 ELSE 0))
    /\ [][rounds' > rounds => \E i \in DOMAIN seeds : done[i] = 0]_vars

\* Three seeds and two slots: the third seed waited for a later round.
C16_Witness ==
    /\ LoopExited /\ NumSeeds = 3 /\ nbufs = 2 /\ rounds >= 3
    /\ served = DOMAIN seeds

\* The half-open extent [x0, x0 + DX) x [y0, y0 + DY) of cell c.
InExtent(p, c) ==
    /\ GridX(STEPS, c) <= p[1] /\ p[1] < GridX(STEPS, c) + DX(STEPS)
    /\ GridY(STEPS, c) <= p[2] /\ p[2] < GridY(STEPS, c) + DY(STEPS)
\* The same extent with its upper edges.
InClosedExtent(p, c) ==
    /\ GridX(STEPS, c) <= p[1] /\ p[1] <= GridX(STEPS, c) + DX(STEPS)
    /\ GridY(STEPS, c) <= p[2] /\ p[2] <= GridY(STEPS, c) + DY(STEPS)
\* The samples drawn for the j-th cell of the list.
DrawnFor(j) == {k \in DOMAIN cp_rand : k % Len(cp_cells) = j - 1}

\* C21 as stated: for a non-empty cell list sample_cells draws exactly
\* per_cell = 1 + SAMPLES // |cells| points for each cell, at least one, at
\* least SAMPLES in all, and every point lies in the half-open extent
\* [x0, x0 + DX) x [y0, y0 + DY) of the cell it was drawn for.
C21_PerCellSampling ==
    (Sampled /\ cp_cells # <<>>) =>
        /\ 1 + SAMPLES \div Len(cp_cells) >= 1
        /\ Cardinality(DOMAIN cp_rand) >= SAMPLES
        /\ \A j \in DOMAIN cp_cells :
              /\ Cardinality(DrawnFor(j)) = 1 + SAMPLES \div Len(cp_cells)
              /\ \A k \in DrawnFor(j) : InExtent(cp_rand[k], cp_cells[j])

\* What sample_cells does keep: the budget per cell and in all, and every
\* point within the extent of its cell, upper edges included.
SampleBudgetAndClosedExtent ==
    (Sampled /\ cp_cells # <<>>) =>
        /\ 1 + SAMPLES \div Len(cp_cells) >= 1
        /\ Cardinality(DOMAIN cp_rand) >= SAMPLES
        /\ \A j \in DOMAIN cp_cells :
              /\ Cardinality(DrawnFor(j)) = 1 + SAMPLES \div Len(cp_cells)
              /\ \A k \in DrawnFor(j) : InClosedExtent(cp_rand[k], cp_cells[j])

\* C22: animate's checkpoint sequence has exactly ANIMATE_SECONDS *
\* ANIMATE_FPS bounds, strictly ascending, each MIN_ITERS_SAMPLES //
\* (ANIMATE_SECONDS * ANIMATE_FPS) above the one before, the last equal to
\* MIN_ITERS_SAMPLES; animate writes one image per checkpoint, in checkpoint
\* order, numbered consecutively from 1.
C22_AnimateCheckpoints ==
    /\ Len(animate_checkpoints) = ANIMATE_SECONDS * ANIMATE_FPS
    /\ \A i \in DOMAIN animate_checkpoints : \A j \in DOMAIN animate_checkpoints :
          i < j => animate_checkpoints[i] < animate_checkpoints[j]
    /\ \A i \in DOMAIN animate_checkpoints :
          i > 1 => animate_checkpoints[i] - animate_checkpoints[i - 1]
                      = MIN_ITERS_SAMPLES \div (ANIMATE_SECONDS * ANIMATE_FPS)
    /\ animate_checkpoints # <<>>
    /\ animate_checkpoints[Len(animate_checkpoints)] = MIN_ITERS_SAMPLES
    /\ cl_pc # "ValueError"
    /\ cl_cmd = "animate" =>
          /\ Len(cl_frames) <= Len(animate_checkpoints)
          /\ \A i \in DOMAIN cl_frames : cl_frames[i] = animate_checkpoints[i]
          /\ cl_images = 1 .. Len(cl_frames)
          /\ cl_pc = "done" => cl_frames = animate_checkpoints

\* animate has written its last frame, of more than one.
C22_Witness ==
    /\ cl_cmd = "animate" /\ cl_pc = "done"
    /\ Len(cl_frames) > 1 /\ cl_frames[1] < cl_frames[2]
    /\ cl_images = 1 .. Len(cl_frames)

====
